---- MODULE Spec2Model ----
(***************************************************************************)
(* The clkbufmap pass (passes/techmap/clkbufmap.cc): insertion of clock    *)
(* buffers and input pads on the clock nets of a hierarchical netlist.     *)
(*                                                                         *)
(* A design is a function from module names to modules.  A module holds a  *)
(* sequence of wires, a sequence of cells and a sequence of bit-to-bit      *)
(* connections (lhs is driven by rhs).  A SigBit is <<wire id, offset>>.    *)
(***************************************************************************)
EXTENDS Integers, Sequences, FiniteSets, TLC

VARIABLES
    design,             \* RTLIL::Design: module name -> module
    design0,            \* the design as it was when the current run started
    args,               \* the options of the run (-buf, -inpad, selection)
    roots,              \* design->selected_modules(), in iteration order
    run,                \* number of the current run of the pass
    pc,                 \* position inside execute()
    autoidx,            \* counter behind NEW_ID
    sink_ports,         \* pool of <<type, port, bit>>
    buf_ports,          \* pool of <<type, port, bit>>
    inv_ports_out,      \* dict <<type, port, bit>> -> <<port, bit>>
    inv_ports_in,       \* dict <<type, port, bit>> -> <<port, bit>>
    buffer_inputs,      \* use both the -buf and the -inpad cell on clock inputs
    ridx,               \* index into roots of the next module_queue call
    modules_sorted,     \* std::vector<Module *>
    modules_processed,  \* pool<Module *>
    midx,               \* index into modules_sorted of the current module
    sigmap,             \* SigMap(module) of the current module (a snapshot)
    sink_wire_bits,     \* pool<SigBit>
    buf_wire_bits,      \* pool<SigBit>
    driven_wire_bits,   \* pool<SigBit>
    buffered_bits,      \* dict SigBit -> [cell, wire]
    input_queue,        \* vector of <<wire, new_wire>>
    bufr_cells_map,     \* hash of a bit -> sequence of BUFR/BUFIO cell names
    retry               \* the flag of the inverter propagation loop

vars == <<design, design0, args, roots, run, pc, autoidx, sink_ports, buf_ports,
          inv_ports_out, inv_ports_in, buffer_inputs, ridx, modules_sorted,
          modules_processed, midx, sigmap, sink_wire_bits, buf_wire_bits,
          driven_wire_bits, buffered_bits, input_queue, bufr_cells_map,
          retry>>

(***************************************************************************)
(* Bounds of the model.                                                    *)
(***************************************************************************)
MaxWidth == 2       \* widest port wire of the generated designs
NumMods == 3        \* user modules of the generated instantiation graphs
MaxRuns == 2        \* the pass is run at most this many times in a row

(***************************************************************************)
(* Generic helpers.                                                        *)
(***************************************************************************)
Range(s) == { s[i] : i \in DOMAIN s }

EmptyFun == [x \in {} |-> x]

RECURSIVE SeqsUpTo(_, _)
SeqsUpTo(S, n) ==
    IF n = 0 THEN { <<>> }
    ELSE LET shorter == SeqsUpTo(S, n - 1)
         IN  shorter \cup { Append(s, x) : s \in { t \in shorter : Len(t) = n - 1 }, x \in S }

\* Sequences without repetition over S (every order of every subset).
RECURSIVE Arrangements(_)
Arrangements(S) ==
    { <<>> } \cup UNION { { <<x>> \o s : s \in Arrangements(S \ {x}) } : x \in S }

(***************************************************************************)
(* The netlist data model (kernel/rtlil.h).                                *)
(***************************************************************************)
NoAttrs == [clkbuf_inhibit |-> FALSE, clkbuf_driver |-> FALSE,
            clkbuf_sink |-> FALSE, clkbuf_inv |-> ""]

\* A wire keeps its identity (id, what a Wire * points to) when it is renamed.
MkWire(name, width, pin, pout, pid, attrs) ==
    [id |-> name, name |-> name, width |-> width, port_input |-> pin,
     port_output |-> pout, port_id |-> pid, attributes |-> attrs]

MkCell(name, type, conn) == [name |-> name, type |-> type, conn |-> conn]

MkConn(port, sig) == [port |-> port, sig |-> sig]

FullSel == [full |-> TRUE, members |-> {}]

MkModule(blackbox, top, wires, cells, connections, sel) ==
    [blackbox |-> blackbox, top |-> top, wires |-> wires, cells |-> cells,
     connections |-> connections, sel |-> sel,
     ports |-> [i \in 1..0 |-> ""]]

\* Module::wire(name)
HasWire(m, name) == \E i \in DOMAIN m.wires : m.wires[i].name = name

WireOf(m, name) == m.wires[CHOOSE i \in DOMAIN m.wires : m.wires[i].name = name]

\* The wire a SigBit points to.
WireById(m, id) == m.wires[CHOOSE i \in DOMAIN m.wires : m.wires[i].id = id]

HasCell(m, name) == \E i \in DOMAIN m.cells : m.cells[i].name = name

CellOf(m, name) == m.cells[CHOOSE i \in DOMAIN m.cells : m.cells[i].name = name]

HasPort(cell, port) == \E i \in DOMAIN cell.conn : cell.conn[i].port = port

\* Cell::getPort
getPort(cell, port) ==
    cell.conn[CHOOSE i \in DOMAIN cell.conn : cell.conn[i].port = port].sig

\* Cell::setPort: replaces the connection of a port, or appends a new one.
setPort(cell, port, sig) ==
    IF HasPort(cell, port)
    THEN [cell EXCEPT !.conn =
            [i \in DOMAIN cell.conn |->
                IF cell.conn[i].port = port THEN MkConn(port, sig) ELSE cell.conn[i]]]
    ELSE [cell EXCEPT !.conn = Append(cell.conn, MkConn(port, sig))]

\* Cell::output: the port is an output port of the cell's type, when the
\* type is a module of the design.
output(d, cell, port) ==
    /\ cell.type \in DOMAIN d
    /\ HasWire(d[cell.type], port)
    /\ WireOf(d[cell.type], port).port_output

\* Module::selected(wire)
selected(m, wire) == m.sel.full \/ wire.name \in m.sel.members

\* NEW_ID: the n-th automatically generated name.
AutoIds == << "$auto1", "$auto2", "$auto3", "$auto4", "$auto5", "$auto6",
              "$auto7", "$auto8", "$auto9", "$auto10", "$auto11", "$auto12",
              "$auto13", "$auto14", "$auto15", "$auto16", "$auto17", "$auto18",
              "$auto19", "$auto20", "$auto21", "$auto22", "$auto23", "$auto24" >>

NEW_ID(n) == AutoIds[n]

(***************************************************************************)
(* SigMap (kernel/sigtools.h): a union-find over the bits of the module's  *)
(* connections.  Merging lhs with rhs makes the root of rhs the            *)
(* representative of both.                                                 *)
(***************************************************************************)
RECURSIVE Find(_, _)
Find(parent, bit) ==
    IF bit \notin DOMAIN parent \/ parent[bit] = bit THEN bit
    ELSE Find(parent, parent[bit])

SigMapAdd(parent, from, to) ==
    LET p1 == [b \in DOMAIN parent \cup {from, to} |->
                 IF b \in DOMAIN parent THEN parent[b] ELSE b]
        rf == Find(p1, from)
        rt == Find(p1, to)
    IN  IF rf = rt THEN p1 ELSE [p1 EXCEPT ![rf] = rt]

RECURSIVE SigMapFrom(_, _, _)
SigMapFrom(conns, i, parent) ==
    IF i > Len(conns) THEN parent
    ELSE SigMapFrom(conns, i + 1, SigMapAdd(parent, conns[i][1], conns[i][2]))

SigMap(m) == SigMapFrom(m.connections, 1, EmptyFun)

(***************************************************************************)
(* module_queue: depth-first post-order over the cells of a module.        *)
(* st is [sorted, processed].                                              *)
(***************************************************************************)
RECURSIVE module_queue(_, _, _)
RECURSIVE module_queue_cells(_, _, _, _)

\* module_queue that would list the module before the modules of its cells.
module_queue_pre(d, module, st) ==
    IF module \in st.processed THEN st
    ELSE module_queue_cells(d, d[module].cells, 1,
            [sorted |-> Append(st.sorted, module),
             processed |-> st.processed \cup {module}])

module_queue(d, module, st) ==
    IF module \in st.processed THEN st
    ELSE LET st1 == module_queue_cells(d, d[module].cells, 1, st)
         IN  [sorted |-> Append(st1.sorted, module),
              processed |-> st1.processed \cup {module}]

module_queue_cells(d, cells, i, st) ==
    IF i > Len(cells) THEN st
    ELSE module_queue_cells(d, cells, i + 1,
            IF cells[i].type \in DOMAIN d
            THEN module_queue(d, cells[i].type, st)
            ELSE st)

(***************************************************************************)
(* Names.  A name given on the command line is a sequence of characters;   *)
(* the port names of the model are one character long.  escape_id puts a   *)
(* backslash before a name that starts with neither a backslash nor '$'.   *)
(***************************************************************************)
RawNames == {"BUFG", "IBUF", "O", "I", "Z", "P"}

escape_id(str) ==
    IF str = "" THEN ""
    ELSE IF str \in RawNames
         THEN CASE str = "BUFG" -> "\\BUFG"
                [] str = "IBUF" -> "\\IBUF"
                [] str = "O" -> "\\O"
                [] str = "I" -> "\\I"
                [] str = "Z" -> "\\Z"
                [] str = "P" -> "\\P"
         ELSE str

\* The std::string made of the characters chars.
Str(chars) ==
    CASE Len(chars) = 0 -> ""
      [] Len(chars) = 1 -> chars[1]

\* std::string::find_first_of(':'), 1-based; 0 stands for npos.
find_first_of(chars, ch) ==
    IF \E i \in DOMAIN chars : chars[i] = ch
    THEN CHOOSE i \in DOMAIN chars :
            chars[i] = ch /\ \A j \in 1..(i - 1) : chars[j] # ch
    ELSE 0

\* split_portname_pair(port1, port2): the two strings after the call.
split_portname_pair(port1, port2) ==
    LET pos == find_first_of(port1, ":")
    IN  IF pos # 0
        THEN << SubSeq(port1, 1, pos - 1), SubSeq(port1, pos + 1, Len(port1)) >>
        ELSE << port1, port2 >>

\* The option variables of execute() after the argument loop.
buf_celltype == args.buf_celltype
buf_portname == Str(split_portname_pair(args.buf_portarg, <<>>)[1])
buf_portname2 == Str(split_portname_pair(args.buf_portarg, <<>>)[2])
inpad_celltype == args.inpad_celltype
inpad_portname == Str(split_portname_pair(args.inpad_portarg, <<>>)[1])
inpad_portname2 == Str(split_portname_pair(args.inpad_portarg, <<>>)[2])
select == args.select

(***************************************************************************)
(* Module operations of the kernel used by the pass.                       *)
(***************************************************************************)
addCell(m, name, type) == [m EXCEPT !.cells = Append(@, MkCell(name, type, <<>>))]

addWire(m, name, width) ==
    [m EXCEPT !.wires = Append(@, MkWire(name, width, FALSE, FALSE, 0, NoAttrs))]

\* Module::addWire(name, other): the new wire copies other's width, port
\* flags, port id and attributes.
addWireLike(m, name, other) ==
    [m EXCEPT !.wires = Append(@, [other EXCEPT !.id = name, !.name = name])]

\* Module::connect(lhs, rhs), one bit.
connect(m, lhs, rhs) == [m EXCEPT !.connections = Append(@, <<lhs, rhs>>)]

setCellPort(m, cname, port, sig) ==
    [m EXCEPT !.cells =
        [i \in DOMAIN m.cells |->
            IF m.cells[i].name = cname THEN setPort(m.cells[i], port, sig)
            ELSE m.cells[i]]]

\* Module::swap_names: the two wires exchange their names.
swap_names(m, w1, w2) ==
    LET n1 == WireById(m, w1).name
        n2 == WireById(m, w2).name
    IN  [m EXCEPT !.wires =
            [i \in DOMAIN m.wires |->
                IF m.wires[i].id = w1 THEN [m.wires[i] EXCEPT !.name = n2]
                ELSE IF m.wires[i].id = w2 THEN [m.wires[i] EXCEPT !.name = n1]
                ELSE m.wires[i]]]

\* Module::fixup_ports: the port wires sorted by port id (ties by position)
\* are renumbered from 1 and listed in ports; other wires get port id 0.
RECURSIVE SortPorts(_, _)
SortPorts(wires, left) ==
    IF left = {} THEN <<>>
    ELSE LET Before(a, b) ==
                 \/ wires[a].port_id # 0 /\ wires[b].port_id = 0
                 \/ /\ (wires[a].port_id = 0) = (wires[b].port_id = 0)
                    /\ \/ wires[a].port_id < wires[b].port_id
                       \/ wires[a].port_id = wires[b].port_id /\ a < b
             first == CHOOSE a \in left : \A b \in left \ {a} : Before(a, b)
         IN  <<first>> \o SortPorts(wires, left \ {first})

fixup_ports(m) ==
    LET all_ports == SortPorts(m.wires,
            { i \in DOMAIN m.wires : m.wires[i].port_input \/ m.wires[i].port_output })
        NewId(i) == IF \E k \in DOMAIN all_ports : all_ports[k] = i
                    THEN CHOOSE k \in DOMAIN all_ports : all_ports[k] = i
                    ELSE 0
    IN  [m EXCEPT !.wires = [i \in DOMAIN m.wires |-> [m.wires[i] EXCEPT !.port_id = NewId(i)]],
                  !.ports = [k \in DOMAIN all_ports |-> m.wires[all_ports[k]].name]]

\* SigBit::hash: a function of the wire's name and of the offset.
NameIndex(name) ==
    IF \E k \in DOMAIN AutoIds : AutoIds[k] = name
    THEN CHOOSE k \in DOMAIN AutoIds : AutoIds[k] = name
    ELSE Len(AutoIds) +
         (CASE name = "\\a" -> 1 [] name = "\\b" -> 2 [] name = "\\c" -> 3
            [] name = "\\ci" -> 4 [] name = "\\co" -> 5 [] OTHER -> 6)

hash(m, bit) == 33 * NameIndex(WireById(m, bit[1]).name) + bit[2]

(***************************************************************************)
(* Blackbox modules: the tags of the ports are read from the attributes of *)
(* the port wires.  tabs is [sink, buf, inv_out, inv_in].                  *)
(***************************************************************************)
WireBits(wire) == 0..(wire.width - 1)

blackbox_port(mname, wire, tabs) ==
    LET keys == { <<mname, wire.name, i>> : i \in WireBits(wire) }
        in_name == escape_id(wire.attributes.clkbuf_inv)
        in_keys == { <<mname, in_name, i>> : i \in WireBits(wire) }
        has_inv == wire.attributes.clkbuf_inv # ""
    IN  [sink |-> IF wire.attributes.clkbuf_sink THEN tabs.sink \cup keys ELSE tabs.sink,
         buf |-> IF wire.attributes.clkbuf_driver THEN tabs.buf \cup keys ELSE tabs.buf,
         inv_out |-> IF has_inv
                     THEN [k \in DOMAIN tabs.inv_out \cup keys |->
                             IF k \in keys THEN <<in_name, k[3]>> ELSE tabs.inv_out[k]]
                     ELSE tabs.inv_out,
         inv_in |-> IF has_inv
                    THEN [k \in DOMAIN tabs.inv_in \cup in_keys |->
                            IF k \in in_keys THEN <<wire.name, k[3]>> ELSE tabs.inv_in[k]]
                    ELSE tabs.inv_in]

RECURSIVE blackbox_ports(_, _, _, _)
blackbox_ports(mname, m, p, tabs) ==
    IF p > Len(m.ports) THEN tabs
    ELSE blackbox_ports(mname, m, p + 1, blackbox_port(mname, WireOf(m, m.ports[p]), tabs))

(***************************************************************************)
(* Collection of the sink bits and of the buffered bits of a module.       *)
(***************************************************************************)
\* Every <<cell index, connection index, bit index>> of the module.
PortSlots(m) ==
    UNION { UNION { { <<c, j, i - 1>> : i \in DOMAIN m.cells[c].conn[j].sig } :
                    j \in DOMAIN m.cells[c].conn } :
            c \in DOMAIN m.cells }

SlotKey(m, slot) == << m.cells[slot[1]].type, m.cells[slot[1]].conn[slot[2]].port, slot[3] >>

SlotBit(m, slot) == m.cells[slot[1]].conn[slot[2]].sig[slot[3] + 1]

collect_tagged(m, sm, tags) ==
    { Find(sm, SlotBit(m, slot)) : slot \in { t \in PortSlots(m) : SlotKey(m, t) \in tags } }

\* Lines 167-172.
collect_sink_bits(m, sm) == collect_tagged(m, sm, sink_ports)

\* The collection that would find no buffered bit.
collect_buf_bits_none(m, sm) == {}

\* Lines 174-179.
collect_buf_bits(m, sm) == collect_tagged(m, sm, buf_ports)

\* Collect all driven bits: the bits connected to output ports, unmapped.
collect_driven(d, m) ==
    { SlotBit(m, slot) :
        slot \in { t \in PortSlots(m) :
                     output(d, m.cells[t[1]], m.cells[t[1]].conn[t[2]].port) } }

(***************************************************************************)
(* Propagation of the tags through inverters.  st is [sink, buf, retry].   *)
(***************************************************************************)
\* The body of the loop without the retry of lines 203-206.
prop_bit_no_retry(cell, j, i, sm, st) ==
    LET key == << cell.type, cell.conn[j].port, i >>
        bit == Find(sm, cell.conn[j].sig[i + 1])
        fire1 == key \in DOMAIN inv_ports_out /\ bit \notin st.buf /\ bit \in st.sink
        st1 == IF fire1
               THEN LET it == inv_ports_out[key]
                        other_bit == Find(sm, getPort(cell, it[1])[it[2] + 1])
                    IN  [sink |-> st.sink \cup {other_bit},
                         buf |-> st.buf \cup {bit},
                         retry |-> TRUE]
               ELSE st
        fire2 == key \in DOMAIN inv_ports_in /\ bit \in st1.buf
    IN  IF fire2
        THEN LET it2 == inv_ports_in[key]
                 other_bit == Find(sm, getPort(cell, it2[1])[it2[2] + 1])
             IN  [st1 EXCEPT !.buf = @ \cup {other_bit}]
        ELSE st1

\* The body of the loop without the insertion into the buffered set of
\* line 193.
prop_bit_no_mark(cell, j, i, sm, st) ==
    LET key == << cell.type, cell.conn[j].port, i >>
        bit == Find(sm, cell.conn[j].sig[i + 1])
        fire1 == key \in DOMAIN inv_ports_out /\ bit \notin st.buf /\ bit \in st.sink
        st1 == IF fire1
               THEN LET it == inv_ports_out[key]
                        other_bit == Find(sm, getPort(cell, it[1])[it[2] + 1])
                    IN  [st EXCEPT !.sink = @ \cup {other_bit}, !.retry = TRUE]
               ELSE st
        fire2 == key \in DOMAIN inv_ports_in /\ bit \in st1.buf
    IN  IF fire2
        THEN LET it2 == inv_ports_in[key]
                 other_bit == Find(sm, getPort(cell, it2[1])[it2[2] + 1])
             IN  IF other_bit \notin st1.buf
                 THEN [st1 EXCEPT !.buf = @ \cup {other_bit}, !.retry = TRUE]
                 ELSE st1
        ELSE st1

\* The body of the loop without the insertion into the sink set of line 195.
prop_bit_no_sink(cell, j, i, sm, st) ==
    LET key == << cell.type, cell.conn[j].port, i >>
        bit == Find(sm, cell.conn[j].sig[i + 1])
        fire1 == key \in DOMAIN inv_ports_out /\ bit \notin st.buf /\ bit \in st.sink
        st1 == IF fire1
               THEN [st EXCEPT !.buf = @ \cup {bit}, !.retry = TRUE]
               ELSE st
        fire2 == key \in DOMAIN inv_ports_in /\ bit \in st1.buf
    IN  IF fire2
        THEN LET it2 == inv_ports_in[key]
                 other_bit == Find(sm, getPort(cell, it2[1])[it2[2] + 1])
             IN  IF other_bit \notin st1.buf
                 THEN [st1 EXCEPT !.buf = @ \cup {other_bit}, !.retry = TRUE]
                 ELSE st1
        ELSE st1

\* Lines 188-207: the body of the innermost loop for bit i of connection j.
prop_bit(cell, j, i, sm, st) ==
    LET key == << cell.type, cell.conn[j].port, i >>
        bit == Find(sm, cell.conn[j].sig[i + 1])
        fire1 == key \in DOMAIN inv_ports_out /\ bit \notin st.buf /\ bit \in st.sink
        st1 == IF fire1
               THEN LET it == inv_ports_out[key]
                        other_bit == Find(sm, getPort(cell, it[1])[it[2] + 1])
                    IN  [sink |-> st.sink \cup {other_bit},
                         buf |-> st.buf \cup {bit},
                         retry |-> TRUE]
               ELSE st
        fire2 == key \in DOMAIN inv_ports_in /\ bit \in st1.buf
    IN  IF fire2
        THEN LET it2 == inv_ports_in[key]
                 other_bit == Find(sm, getPort(cell, it2[1])[it2[2] + 1])
             IN  IF other_bit \notin st1.buf
                 THEN [st1 EXCEPT !.buf = @ \cup {other_bit}, !.retry = TRUE]
                 ELSE st1
        ELSE st1

RECURSIVE prop_bits(_, _, _, _, _)
prop_bits(cell, j, i, sm, st) ==
    IF i >= Len(cell.conn[j].sig) THEN st
    ELSE prop_bits(cell, j, i + 1, sm, prop_bit(cell, j, i, sm, st))

\* The connections of one cell, scanned in the given order.
RECURSIVE prop_cell(_, _, _, _, _)
prop_cell(cell, order, k, sm, st) ==
    IF k > Len(order) THEN st
    ELSE prop_cell(cell, order, k + 1, sm, prop_bits(cell, order[k], 0, sm, st))

\* One pass over the cells: order is a sequence of <<cell index, order of the
\* connections of that cell>>.
RECURSIVE prop_pass(_, _, _, _, _)
prop_pass(cells, order, k, sm, st) ==
    IF k > Len(order) THEN st
    ELSE prop_pass(cells, order, k + 1, sm,
                   prop_cell(cells[order[k][1]], order[k][2], 1, sm, st))

\* The order in which the containers are written.
NaturalOrder(cells) ==
    [c \in DOMAIN cells |-> << c, [j \in DOMAIN cells[c].conn |-> j] >>]

\* while (retry) { retry = false; one pass }
RECURSIVE propagate(_, _, _)
propagate(cells, sm, st) ==
    IF ~st.retry THEN st
    ELSE propagate(cells, sm,
                   prop_pass(cells, NaturalOrder(cells), 1, sm, [st EXCEPT !.retry = FALSE]))

(***************************************************************************)
(* Insertion of the buffers.  The loop state s is                          *)
(*   [m, ai, bp, sp, bb, iq, ib]: the module, autoidx, buf_ports,          *)
(*   sink_ports, buffered_bits, input_queue and the input_bits of the      *)
(*   current wire.                                                         *)
(***************************************************************************)
process_wire(m, wire) ==
    IF ~select /\ wire.attributes.clkbuf_inhibit THEN FALSE ELSE selected(m, wire)

PortKeys(mname, wire) == { <<mname, wire.name, i>> : i \in WireBits(wire) }

\* The bits of the wires that will be processed, mapped.
buf_bits_of(m, sm) ==
    UNION { { Find(sm, <<m.wires[w].id, i>>) : i \in WireBits(m.wires[w]) } :
            w \in { x \in DOMAIN m.wires :
                      /\ ~(m.wires[x].port_input /\ m.wires[x].port_output)
                      /\ process_wire(m, m.wires[x]) } }

\* The index of the BUFR and BUFIO cells by the hash of their input bit.
RECURSIVE bufr_index(_, _, _, _)
bufr_index(m, c, buf_bits, map) ==
    IF c > Len(m.cells) THEN map
    ELSE LET cell == m.cells[c]
             i_bit == getPort(cell, "\\I")[1]
             h == hash(m, i_bit)
         IN  IF cell.type \notin {"\\BUFR", "\\BUFIO"} \/ i_bit \notin buf_bits
             THEN bufr_index(m, c + 1, buf_bits, map)
             ELSE bufr_index(m, c + 1, buf_bits,
                    [k \in DOMAIN map \cup {h} |->
                        IF k = h
                        THEN (IF h \in DOMAIN map THEN map[h] ELSE <<>>) \o <<cell.name>>
                        ELSE map[k]])

\* The insertion with the two ports of the buffer exchanged.
insert_cells_ports_swapped(mname, s, wire, i, mapped_wire_bit) ==
    LET top == s.m.top
        is_input == wire.port_input /\ inpad_celltype # "" /\ top
        with_buf == buf_celltype # "" /\ (~is_input \/ buffer_inputs)
        cell1 == NEW_ID(s.ai + 1)
        iwire1 == NEW_ID(s.ai + 2)
        m1 == IF with_buf
              THEN setCellPort(
                     setCellPort(
                       addWire(addCell(s.m, cell1, escape_id(buf_celltype)), iwire1, 1),
                       cell1, escape_id(buf_portname2), <<mapped_wire_bit>>),
                     cell1, escape_id(buf_portname), << <<iwire1, 0>> >>)
              ELSE s.m
        ai1 == IF with_buf THEN s.ai + 2 ELSE s.ai
        cell2 == NEW_ID(ai1 + 1)
        iwire2 == NEW_ID(ai1 + 2)
        m2 == IF is_input
              THEN setCellPort(
                     addWire(
                       setCellPort(addCell(m1, cell2, escape_id(inpad_celltype)),
                                   cell2, escape_id(inpad_portname),
                                   IF with_buf THEN << <<iwire1, 0>> >> ELSE <<mapped_wire_bit>>),
                       iwire2, 1),
                     cell2, escape_id(inpad_portname2), << <<iwire2, 0>> >>)
              ELSE m1
        ai2 == IF is_input THEN ai1 + 2 ELSE ai1
        cell == IF with_buf THEN cell1 ELSE cell2
        iwire == IF is_input THEN iwire2 ELSE iwire1
        has_iwire == with_buf \/ is_input
    IN  [s EXCEPT !.m = m2, !.ai = ai2,
                  !.bb = IF has_iwire
                         THEN [b \in DOMAIN s.bb \cup {mapped_wire_bit} |->
                                 IF b = mapped_wire_bit
                                 THEN [cell |-> cell, wire |-> iwire]
                                 ELSE s.bb[b]]
                         ELSE s.bb,
                  !.ib = IF wire.port_input THEN s.ib \cup {i} ELSE s.ib]

\* Lines 302-329: a buffer and/or a pad for the bit i of the wire.
insert_cells(mname, s, wire, i, mapped_wire_bit) ==
    LET top == s.m.top
        is_input == wire.port_input /\ inpad_celltype # "" /\ top
        with_buf == buf_celltype # "" /\ (~is_input \/ buffer_inputs)
        cell1 == NEW_ID(s.ai + 1)
        iwire1 == NEW_ID(s.ai + 2)
        m1 == IF with_buf
              THEN setCellPort(
                     setCellPort(
                       addWire(addCell(s.m, cell1, escape_id(buf_celltype)), iwire1, 1),
                       cell1, escape_id(buf_portname), <<mapped_wire_bit>>),
                     cell1, escape_id(buf_portname2), << <<iwire1, 0>> >>)
              ELSE s.m
        ai1 == IF with_buf THEN s.ai + 2 ELSE s.ai
        cell2 == NEW_ID(ai1 + 1)
        iwire2 == NEW_ID(ai1 + 2)
        m2 == IF is_input
              THEN setCellPort(
                     addWire(
                       setCellPort(addCell(m1, cell2, escape_id(inpad_celltype)),
                                   cell2, escape_id(inpad_portname),
                                   IF with_buf THEN << <<iwire1, 0>> >> ELSE <<mapped_wire_bit>>),
                       iwire2, 1),
                     cell2, escape_id(inpad_portname2), << <<iwire2, 0>> >>)
              ELSE m1
        ai2 == IF is_input THEN ai1 + 2 ELSE ai1
        cell == IF with_buf THEN cell1 ELSE cell2
        iwire == IF is_input THEN iwire2 ELSE iwire1
        has_iwire == with_buf \/ is_input
    IN  [s EXCEPT !.m = m2, !.ai = ai2,
                  !.bb = IF has_iwire
                         THEN [b \in DOMAIN s.bb \cup {mapped_wire_bit} |->
                                 IF b = mapped_wire_bit
                                 THEN [cell |-> cell, wire |-> iwire]
                                 ELSE s.bb[b]]
                         ELSE s.bb,
                  !.ib = IF wire.port_input THEN s.ib \cup {i} ELSE s.ib]

\* The decision that would buffer the input ports of every module.
insert_bit_any_input(mname, s, wire, i) ==
    LET wire_bit == <<wire.id, i>>
        mapped_wire_bit == Find(sigmap, wire_bit)
    IN  IF mapped_wire_bit \in buf_wire_bits
        THEN IF wire.port_output
             THEN [s EXCEPT !.bp = @ \cup {<<mname, wire.name, i>>}]
             ELSE s
        ELSE IF mapped_wire_bit \notin sink_wire_bits
        THEN s
        ELSE IF wire_bit \in driven_wire_bits \/ wire.port_input
        THEN insert_cells(mname, s, wire, i, mapped_wire_bit)
        ELSE s

\* Lines 290-335: the decision for the bit i of the wire.
insert_bit(mname, s, wire, i) ==
    LET wire_bit == <<wire.id, i>>
        mapped_wire_bit == Find(sigmap, wire_bit)
    IN  IF mapped_wire_bit \in buf_wire_bits
        THEN IF wire.port_output
             THEN [s EXCEPT !.bp = @ \cup {<<mname, wire.name, i>>}]
             ELSE s
        ELSE IF mapped_wire_bit \notin sink_wire_bits
        THEN s
        ELSE IF wire_bit \in driven_wire_bits \/ (wire.port_input /\ s.m.top)
        THEN insert_cells(mname, s, wire, i, mapped_wire_bit)
        ELSE IF wire.port_input
        THEN [s EXCEPT !.sp = @ \cup {<<mname, wire.name, i>>}]
        ELSE s

RECURSIVE insert_bits(_, _, _, _)
insert_bits(mname, s, wire, i) ==
    IF i >= wire.width THEN s
    ELSE insert_bits(mname, insert_bit(mname, s, wire, i), wire, i + 1)

\* Lines 342-352: the connections of the new input wire.
RECURSIVE connect_new_wire(_, _, _, _, _)
connect_new_wire(m, bb, wire, new_wire, i) ==
    IF i >= wire.width THEN m
    ELSE LET mapped_wire_bit == Find(sigmap, <<wire.id, i>>)
         IN  connect_new_wire(
                IF mapped_wire_bit \in DOMAIN bb
                THEN connect(m, <<bb[mapped_wire_bit].wire, 0>>, <<new_wire, i>>)
                ELSE connect(m, <<wire.id, i>>, <<new_wire, i>>),
                bb, wire, new_wire, i + 1)

\* The insertion loop without the new input wire.
new_input_wire_never(s, wire) == s

\* Lines 337-354: an input port with inserted buffers gets a new input wire.
new_input_wire(s, wire) ==
    IF s.ib = {} THEN s
    ELSE LET new_wire == NEW_ID(s.ai + 1)
             m1 == addWireLike(s.m, new_wire, wire)
         IN  [s EXCEPT !.m = connect_new_wire(m1, s.bb, wire, new_wire, 0),
                       !.ai = s.ai + 1,
                       !.iq = Append(@, <<wire.id, new_wire>>)]

\* Lines 269-355: one wire of the snapshot.
insert_wire(mname, s, wire) ==
    IF wire.port_input /\ wire.port_output THEN s
    ELSE IF ~process_wire(s.m, wire)
    THEN IF wire.port_output THEN [s EXCEPT !.bp = @ \cup PortKeys(mname, wire)] ELSE s
    ELSE new_input_wire(insert_bits(mname, [s EXCEPT !.ib = {}], wire, 0), wire)

RECURSIVE insert_wires(_, _, _, _)
insert_wires(mname, s, wires, w) ==
    IF w > Len(wires) THEN s
    ELSE insert_wires(mname, insert_wire(mname, s, wires[w]), wires, w + 1)

(***************************************************************************)
(* Publication of the newly buffered output ports (lines 357-368).         *)
(***************************************************************************)
\* The pass without the publication.
publish_nothing(mname, m, bp) == bp

publish_outputs(mname, m, bp) ==
    bp \cup UNION { { <<mname, m.wires[w].name, i>> :
                        i \in { k \in WireBits(m.wires[w]) :
                                  Find(sigmap, <<m.wires[w].id, k>>) \in DOMAIN buffered_bits } } :
                    w \in { x \in DOMAIN m.wires :
                              /\ selected(m, m.wires[x])
                              /\ ~m.wires[x].port_input
                              /\ m.wires[x].port_output } }

(***************************************************************************)
(* Reconnection of the drivers (lines 370-401).  rs is [m, sig, newsig].   *)
(***************************************************************************)
\* Lines 387-394: the BUFR cells recorded for the bit read the new wire.
RECURSIVE repoint_bufr(_, _, _, _)
repoint_bufr(m, cls, k, iwire) ==
    IF k > Len(cls) THEN m
    ELSE LET bufr_i == getPort(CellOf(m, cls[k]), "\\I")
         IN  repoint_bufr(
                setCellPort(m, cls[k], "\\I", [x \in DOMAIN bufr_i |-> <<iwire, 0>>]),
                cls, k + 1, iwire)

\* The rewrite that does not spare the port of the inserted cell.
reconnect_bit_no_skip(cname, rs, k) ==
    LET bit == rs.sig[k]
        mapped == Find(sigmap, bit)
    IN  IF mapped \notin DOMAIN buffered_bits THEN rs
        ELSE LET it == buffered_bits[mapped]
             IN  IF FALSE THEN rs
                 ELSE LET h == hash(rs.m, mapped)
                          m1 == IF h \in DOMAIN bufr_cells_map
                                THEN repoint_bufr(rs.m, bufr_cells_map[h], 1, it.wire)
                                ELSE rs.m
                      IN  [m |-> m1, sig |-> [rs.sig EXCEPT ![k] = <<it.wire, 0>>],
                           newsig |-> TRUE]

reconnect_bit(cname, rs, k) ==
    LET bit == rs.sig[k]
        mapped == Find(sigmap, bit)
    IN  IF mapped \notin DOMAIN buffered_bits THEN rs
        ELSE LET it == buffered_bits[mapped]
             IN  IF cname = it.cell THEN rs
                 ELSE LET h == hash(rs.m, mapped)
                          m1 == IF h \in DOMAIN bufr_cells_map
                                THEN repoint_bufr(rs.m, bufr_cells_map[h], 1, it.wire)
                                ELSE rs.m
                      IN  [m |-> m1, sig |-> [rs.sig EXCEPT ![k] = <<it.wire, 0>>],
                           newsig |-> TRUE]

RECURSIVE reconnect_bits(_, _, _)
reconnect_bits(cname, rs, k) ==
    IF k > Len(rs.sig) THEN rs
    ELSE reconnect_bits(cname, reconnect_bit(cname, rs, k), k + 1)

\* One connection of one cell.
reconnect_port(d, m, c, j) ==
    LET cell == m.cells[c]
        port == cell.conn[j]
    IN  IF ~output(d, cell, port.port) THEN m
        ELSE LET rs == reconnect_bits(cell.name, [m |-> m, sig |-> port.sig, newsig |-> FALSE], 1)
             IN  IF rs.newsig THEN setCellPort(rs.m, cell.name, port.port, rs.sig) ELSE rs.m

RECURSIVE reconnect_ports(_, _, _, _)
reconnect_ports(d, m, c, j) ==
    IF j > Len(m.cells[c].conn) THEN m
    ELSE reconnect_ports(d, reconnect_port(d, m, c, j), c, j + 1)

RECURSIVE reconnect_cells(_, _, _)
reconnect_cells(d, m, c) ==
    IF c > Len(m.cells) THEN m
    ELSE reconnect_cells(d, reconnect_ports(d, m, c, 1), c + 1)

(***************************************************************************)
(* The exchange of the names of the queued input wires (lines 403-414).    *)
(***************************************************************************)
demote_wire(m, w) ==
    [m EXCEPT !.wires =
        [i \in DOMAIN m.wires |->
            IF m.wires[i].id = w
            THEN [m.wires[i] EXCEPT !.attributes = NoAttrs, !.port_id = 0,
                                    !.port_input = FALSE, !.port_output = FALSE]
            ELSE m.wires[i]]]

\* The demotion without swap_names.
swap_one_no_rename(m, pair) == demote_wire(m, pair[1])

\* Lines 405-411: one pair of input_queue.
swap_one(m, pair) == demote_wire(swap_names(m, pair[2], pair[1]), pair[1])

RECURSIVE swap_queue(_, _, _)
swap_queue(m, queue, k) ==
    IF k > Len(queue) THEN m
    ELSE swap_queue(swap_one(m, queue[k]), queue, k + 1)

(***************************************************************************)
(* The designs the pass is run on.  The cell library is a set of blackbox  *)
(* modules; the user modules are built from a shape:                       *)
(*   wires \a (width wa, an input port when a_in), \b, \c (an output port  *)
(*   when c_out); alias: "ba" is assign b = a[0], "cb" is assign c = b;    *)
(*   src, ff, bufr: the bit the cell is connected to; inv: the inverter    *)
(*   from a[0] to b or from b to c; inh: the wire with clkbuf_inhibit;     *)
(*   inst_a, inst_c: the bits the ports of an instance of \sub connect to. *)
(***************************************************************************)
Attr(sink, driver, inv) ==
    [clkbuf_inhibit |-> FALSE, clkbuf_driver |-> driver, clkbuf_sink |-> sink,
     clkbuf_inv |-> inv]

LibCell(wires) == fixup_ports(MkModule(TRUE, FALSE, wires, <<>>, <<>>, FullSel))

Library(cfg) ==
    [n \in {"\\FF", "\\SRC", "\\INV", "\\BUFG", "\\IBUF", "\\BUFR"} |->
        CASE n = "\\FF" ->
                LibCell(<< MkWire("\\C", 1, TRUE, FALSE, 1, Attr(TRUE, FALSE, "")) >>)
          [] n = "\\SRC" ->
                LibCell(<< MkWire("\\Q", 1, FALSE, TRUE, 1, NoAttrs) >>)
          [] n = "\\INV" ->
                LibCell(<< MkWire("\\I", 1, TRUE, FALSE, 1, NoAttrs),
                           MkWire("\\O", 1, FALSE, TRUE, 2, Attr(FALSE, FALSE, "I")) >>)
          [] n = "\\BUFG" ->
                LibCell(<< MkWire("\\I", 1, TRUE, FALSE, 1, NoAttrs),
                           MkWire("\\O", 1, FALSE, TRUE, 2, Attr(FALSE, cfg.bufg_tagged, "")) >>)
          [] n = "\\IBUF" ->
                LibCell(<< MkWire(IF cfg.pad = "ZP" THEN "\\P" ELSE "\\I", 1, TRUE, FALSE, 1, NoAttrs),
                           MkWire(IF cfg.pad = "ZP" THEN "\\Z" ELSE "\\O", 1, FALSE, TRUE, 2,
                                  Attr(FALSE, cfg.pad_tagged, "")) >>)
          [] n = "\\BUFR" ->
                LibCell(<< MkWire("\\I", 1, TRUE, FALSE, 1, NoAttrs),
                           MkWire("\\O", 1, FALSE, TRUE, 2, Attr(FALSE, TRUE, "")) >>)]

ArgsOf(cfg) ==
    [buf_celltype |-> IF cfg.buf THEN "BUFG" ELSE "",
     buf_portarg |-> IF cfg.buf THEN <<"O", ":", "I">> ELSE <<>>,
     inpad_celltype |-> IF cfg.pad = "none" THEN "" ELSE "IBUF",
     inpad_portarg |-> CASE cfg.pad = "none" -> <<>>
                         [] cfg.pad = "OI" -> <<"O", ":", "I">>
                         [] cfg.pad = "ZP" -> <<"Z", ":", "P">>,
     select |-> cfg.select]

NoBit == <<>>

BitA(i) == <<"\\a", i>>
BitB == <<"\\b", 0>>
BitC == <<"\\c", 0>>

Opt(cond, x) == IF cond THEN <<x>> ELSE <<>>

UserModule(sh, top, sel) ==
    LET inh(w) == [NoAttrs EXCEPT !.clkbuf_inhibit = (sh.inh = w)]
        wires == << MkWire("\\a", sh.wa, sh.a_in, FALSE, IF sh.a_in THEN 1 ELSE 0, inh("a")),
                    MkWire("\\b", 1, FALSE, FALSE, 0, inh("b")),
                    MkWire("\\c", 1, FALSE, sh.c_out, IF sh.c_out THEN 2 ELSE 0, inh("c")) >>
        cells ==
            Opt(sh.src # NoBit, MkCell("src", "\\SRC", << MkConn("\\Q", <<sh.src>>) >>))
         \o Opt(sh.inv \in {"ab", "abc"}, MkCell("inv", "\\INV",
                    << MkConn("\\I", <<BitA(0)>>), MkConn("\\O", <<BitB>>) >>))
         \o Opt(sh.inv \in {"bc", "abc"}, MkCell("inv2", "\\INV",
                    << MkConn("\\I", <<BitB>>), MkConn("\\O", <<BitC>>) >>))
         \o Opt(sh.bufr # NoBit, MkCell("bufr", "\\BUFR", << MkConn("\\I", <<sh.bufr>>) >>))
         \o Opt(sh.ff # NoBit, MkCell("ff", "\\FF", << MkConn("\\C", <<sh.ff>>) >>))
         \o Opt(sh.inst_a # NoBit \/ sh.inst_c # NoBit, MkCell("u1", "\\sub",
                    Opt(sh.inst_a # NoBit, MkConn("\\a", <<sh.inst_a>>))
                 \o Opt(sh.inst_c # NoBit, MkConn("\\c", <<sh.inst_c>>))))
        conns == Opt("ba" \in sh.alias, << BitB, BitA(0) >>)
              \o Opt("cb" \in sh.alias, << BitC, BitB >>)
    IN  fixup_ports(MkModule(FALSE, top, wires, cells, conns, sel))

\* The bits that drive a net of the module: input port bits and the bits
\* connected to output ports of cells.
DriverSlots(d, m) ==
    { t \in PortSlots(m) : output(d, m.cells[t[1]], m.cells[t[1]].conn[t[2]].port) }

InputPortBits(m) ==
    UNION { { <<m.wires[w].id, i>> : i \in WireBits(m.wires[w]) } :
            w \in { x \in DOMAIN m.wires : m.wires[x].port_input } }

\* Every net of the module has at most one driver.
SingleDriver(d, m) ==
    LET sm == SigMap(m)
    IN  /\ \A t1, t2 \in DriverSlots(d, m) :
              Find(sm, SlotBit(m, t1)) = Find(sm, SlotBit(m, t2)) => t1 = t2
        /\ \A t \in DriverSlots(d, m), b \in InputPortBits(m) :
              Find(sm, SlotBit(m, t)) # Find(sm, b)

(***************************************************************************)
(* The steps of execute().                                                 *)
(***************************************************************************)
CurName == modules_sorted[midx]
Cur == design[CurName]

tables == <<sink_ports, buf_ports, inv_ports_out, inv_ports_in>>
locals == <<sigmap, sink_wire_bits, buf_wire_bits, driven_wire_bits, buffered_bits,
            input_queue, bufr_cells_map>>
propvars == <<retry>>
inputs == <<design0, args, roots, run>>

\* Lines 122-130.
compute_buffer_inputs(d) ==
    LET t == escape_id(inpad_celltype)
    IN  ~( /\ t \in DOMAIN d
           /\ HasWire(d[t], escape_id(buf_portname))
           /\ WireOf(d[t], escape_id(buf_portname)).attributes.clkbuf_driver )

\* The pass without the test of the options.
config_error_never == FALSE

\* Lines 113-114: log_error ends the run.
config_error == buf_celltype = "" /\ inpad_celltype = ""

StartError ==
    /\ pc = "start"
    /\ config_error
    /\ pc' = "error"
    /\ UNCHANGED <<design, autoidx, buffer_inputs, ridx, modules_sorted,
                   modules_processed, midx, tables, locals, propvars, inputs>>

\* Lines 82-134: the options are read and the tables start empty.
Start ==
    /\ pc = "start"
    /\ ~config_error
    /\ sink_ports' = {}
    /\ buf_ports' = {}
    /\ inv_ports_out' = EmptyFun
    /\ inv_ports_in' = EmptyFun
    /\ buffer_inputs' = compute_buffer_inputs(design)
    /\ modules_sorted' = <<>>
    /\ modules_processed' = {}
    /\ ridx' = 1
    /\ midx' = 1
    /\ pc' = IF roots = <<>> THEN "module" ELSE "queue"
    /\ UNCHANGED <<design, autoidx, locals, propvars, inputs>>

\* Lines 135-136: one call of module_queue from the loop over the roots.
QueueRoot ==
    /\ pc = "queue"
    /\ ridx <= Len(roots)
    /\ LET st == module_queue(design, roots[ridx],
                    [sorted |-> modules_sorted, processed |-> modules_processed])
       IN  /\ modules_sorted' = st.sorted
           /\ modules_processed' = st.processed
    /\ ridx' = ridx + 1
    /\ pc' = IF ridx = Len(roots) THEN "module" ELSE "queue"
    /\ UNCHANGED <<design, autoidx, buffer_inputs, midx, tables, locals, propvars, inputs>>

\* Lines 140-159.
ProcessBlackbox ==
    /\ pc = "module"
    /\ midx <= Len(modules_sorted)
    /\ Cur.blackbox
    /\ LET t == blackbox_ports(CurName, Cur, 1,
                    [sink |-> sink_ports, buf |-> buf_ports,
                     inv_out |-> inv_ports_out, inv_in |-> inv_ports_in])
       IN  /\ sink_ports' = t.sink
           /\ buf_ports' = t.buf
           /\ inv_ports_out' = t.inv_out
           /\ inv_ports_in' = t.inv_in
    /\ midx' = midx + 1
    /\ UNCHANGED <<design, pc, autoidx, buffer_inputs, ridx, modules_sorted,
                   modules_processed, locals, propvars, inputs>>

\* Lines 160-217: the signal map, the tagged bits, the propagation through
\* inverters and the driven bits.
Collect ==
    /\ pc = "module"
    /\ midx <= Len(modules_sorted)
    /\ ~Cur.blackbox
    /\ LET sm == SigMap(Cur)
           st == propagate(Cur.cells, sm,
                    [sink |-> collect_sink_bits(Cur, sm),
                     buf |-> collect_buf_bits(Cur, sm),
                     retry |-> TRUE])
       IN  /\ sigmap' = sm
           /\ sink_wire_bits' = st.sink
           /\ buf_wire_bits' = st.buf
    /\ driven_wire_bits' = collect_driven(design, Cur)
    /\ buffered_bits' = EmptyFun
    /\ input_queue' = <<>>
    /\ bufr_cells_map' = EmptyFun
    /\ pc' = "insert"
    /\ UNCHANGED <<design, autoidx, buffer_inputs, ridx, modules_sorted,
                   modules_processed, midx, tables, propvars, inputs>>

\* Lines 219-355.
Insert ==
    /\ pc = "insert"
    /\ bufr_cells_map' = bufr_index(Cur, 1, buf_bits_of(Cur, sigmap), EmptyFun)
    /\ LET s == insert_wires(CurName,
                    [m |-> Cur, ai |-> autoidx, bp |-> buf_ports, sp |-> sink_ports,
                     bb |-> EmptyFun, iq |-> <<>>, ib |-> {}],
                    Cur.wires, 1)
       IN  /\ design' = [design EXCEPT ![CurName] = s.m]
           /\ autoidx' = s.ai
           /\ buf_ports' = s.bp
           /\ sink_ports' = s.sp
           /\ buffered_bits' = s.bb
           /\ input_queue' = s.iq
    /\ pc' = "publish"
    /\ UNCHANGED <<buffer_inputs, ridx, modules_sorted, modules_processed, midx,
                   inv_ports_out, inv_ports_in, sigmap, sink_wire_bits, buf_wire_bits,
                   driven_wire_bits, propvars, inputs>>

\* Lines 357-368.
Publish ==
    /\ pc = "publish"
    /\ buf_ports' = publish_outputs(CurName, Cur, buf_ports)
    /\ pc' = "reconnect"
    /\ UNCHANGED <<design, autoidx, buffer_inputs, ridx, modules_sorted,
                   modules_processed, midx, sink_ports, inv_ports_out, inv_ports_in,
                   locals, propvars, inputs>>

\* Lines 370-401.
Reconnect ==
    /\ pc = "reconnect"
    /\ design' = [design EXCEPT ![CurName] = reconnect_cells(design, Cur, 1)]
    /\ pc' = "swap"
    /\ UNCHANGED <<autoidx, buffer_inputs, ridx, modules_sorted, modules_processed,
                   midx, tables, locals, propvars, inputs>>

\* Lines 403-414.
Swap ==
    /\ pc = "swap"
    /\ design' = [design EXCEPT ![CurName] = fixup_ports(swap_queue(Cur, input_queue, 1))]
    /\ midx' = midx + 1
    /\ pc' = "module"
    /\ UNCHANGED <<autoidx, buffer_inputs, ridx, modules_sorted, modules_processed,
                   tables, locals, propvars, inputs>>

\* The loop over modules_sorted ends and execute() returns.
Finish ==
    /\ pc = "module"
    /\ midx > Len(modules_sorted)
    /\ pc' = "done"
    /\ UNCHANGED <<design, autoidx, buffer_inputs, ridx, modules_sorted,
                   modules_processed, midx, tables, locals, propvars, inputs>>

\* The pass is run again on the design it produced, with the same options.
Rerun ==
    /\ pc = "done"
    /\ run < MaxRuns
    /\ run' = run + 1
    /\ design0' = design
    /\ pc' = "start"
    /\ UNCHANGED <<design, args, roots, autoidx, buffer_inputs, ridx, modules_sorted,
                   modules_processed, midx, tables, locals, propvars>>

(***************************************************************************)
(* The initial states: a configuration, a design and a selection.          *)
(***************************************************************************)
Cfg(buf, bufg_tagged, pad, pad_tagged, sel) ==
    [buf |-> buf, bufg_tagged |-> bufg_tagged, pad |-> pad, pad_tagged |-> pad_tagged,
     select |-> sel]

CfgBuf == Cfg(TRUE, TRUE, "none", FALSE, FALSE)          \* -buf BUFG O:I
CfgBufUntagged == Cfg(TRUE, FALSE, "none", FALSE, FALSE) \* BUFG.O is no clkbuf_driver
CfgPad == Cfg(FALSE, TRUE, "OI", TRUE, FALSE)            \* -inpad IBUF O:I
CfgPadDriver == Cfg(TRUE, TRUE, "OI", TRUE, FALSE)       \* both, IBUF.O is a clkbuf_driver
CfgBoth == Cfg(TRUE, TRUE, "OI", FALSE, FALSE)           \* both, IBUF.O is none
CfgPadDriverZ == Cfg(TRUE, TRUE, "ZP", TRUE, FALSE)      \* both, IBUF Z:P, Z a clkbuf_driver
CfgPadUntagged == Cfg(FALSE, TRUE, "OI", FALSE, FALSE)   \* -inpad only, IBUF.O is none
CfgNone == Cfg(FALSE, TRUE, "none", FALSE, FALSE)        \* neither -buf nor -inpad

Base == [wa |-> 1, a_in |-> FALSE, c_out |-> FALSE, alias |-> {}, src |-> NoBit,
         inv |-> "none", ff |-> NoBit, bufr |-> NoBit, inh |-> "none",
         inst_a |-> NoBit, inst_c |-> NoBit]

DesignOf(i) ==
    LET lib == Library(i.cfg)
    IN  [n \in DOMAIN lib \cup {"\\top"} \cup (IF i.has_sub THEN {"\\sub"} ELSE {}) |->
            IF n = "\\top" THEN UserModule(i.top, TRUE, i.topsel)
            ELSE IF n = "\\sub" THEN UserModule(i.sub, FALSE, i.subsel)
            ELSE lib[n]]

WellFormed(i) ==
    LET d == DesignOf(i)
    IN  /\ SingleDriver(d, d["\\top"])
        /\ i.has_sub => SingleDriver(d, d["\\sub"])

Flat(cfg, top) ==
    [cfg |-> cfg, top |-> top, has_sub |-> FALSE, sub |-> Base,
     roots |-> << "\\top" >>, topsel |-> FullSel, subsel |-> FullSel]

\* One top module with a source, an inverter, an alias and a sink.
ShapesFlat ==
    { [Base EXCEPT !.wa = wa, !.a_in = ain, !.c_out = cout, !.alias = al,
                   !.src = src, !.inv = inv, !.ff = ff] :
        wa \in 1..MaxWidth, ain \in BOOLEAN, cout \in BOOLEAN,
        al \in {{}, {"ba"}, {"cb"}}, src \in {NoBit, BitA(0), BitB},
        inv \in {"none", "ab", "bc", "abc"}, ff \in {BitA(0), BitA(MaxWidth - 1), BitB, BitC} }

InitsFlat ==
    { Flat(cfg, top) : cfg \in {CfgBuf, CfgBufUntagged, CfgNone}, top \in ShapesFlat }
    \cup
    { Flat(cfg, top) : cfg \in {CfgPad, CfgPadDriver, CfgBoth, CfgPadDriverZ, CfgPadUntagged},
                       top \in { t \in ShapesFlat : t.a_in } }

\* Wires with clkbuf_inhibit, under the full selection or a selection of wires.
ShapesInhibit ==
    { [Base EXCEPT !.a_in = ain, !.c_out = cout, !.alias = al, !.src = src,
                   !.inv = inv, !.ff = ff, !.inh = inh] :
        ain \in BOOLEAN, cout \in BOOLEAN,
        al \in {{}, {"ba"}, {"cb"}, {"ba", "cb"}}, src \in {NoBit, BitA(0), BitB},
        inv \in {"none", "bc"}, ff \in {BitA(0), BitB, BitC}, inh \in {"a", "b", "c"} }

Selections ==
    { FullSel, [full |-> FALSE, members |-> {"\\a"}],
      [full |-> FALSE, members |-> {"\\b", "\\c"}] }

InitsInhibit ==
    { [Flat([CfgBuf EXCEPT !.select = sel], top) EXCEPT !.topsel = ts] :
        sel \in BOOLEAN, top \in ShapesInhibit, ts \in Selections }

\* BUFR cells that read the net of the sink.
ShapesBufr ==
    { [Base EXCEPT !.a_in = ain, !.alias = al, !.src = src, !.ff = ff, !.bufr = bufr] :
        ain \in BOOLEAN, al \in {{}, {"ba"}}, src \in {NoBit, BitA(0), BitB},
        ff \in {BitA(0), BitB}, bufr \in {BitA(0), BitB} }

InitsBufr == { Flat(cfg, top) : cfg \in {CfgBuf, CfgBoth}, top \in ShapesBufr }

\* A top module that instantiates \sub.
ShapesSub ==
    { [Base EXCEPT !.a_in = TRUE, !.c_out = TRUE, !.alias = al, !.src = src,
                   !.ff = ff, !.inh = inh] :
        al \in {{}, {"cb"}}, src \in {NoBit, BitB, BitC}, ff \in {NoBit, BitA(0), BitB, BitC},
        inh \in {"none", "a", "c"} }

\* The instance reads the input port, an undriven wire or a driven wire, and
\* a sink of the top module may read the net of its output.
ShapesTop ==
    { [Base EXCEPT !.a_in = ain, !.src = v[2], !.inst_a = v[1], !.inst_c = w[1], !.ff = w[2],
                   !.inh = inh] :
        ain \in BOOLEAN, inh \in {"none", "a"},
        v \in { <<NoBit, NoBit>>, <<BitA(0), NoBit>>, <<BitB, NoBit>>, <<BitB, BitB>> },
        w \in { <<NoBit, NoBit>>, <<BitB, NoBit>>, <<BitB, BitB>>, <<BitC, NoBit>>, <<BitC, BitC>> } }

Hier(cfg, top, sub, rts) ==
    [cfg |-> cfg, top |-> top, has_sub |-> TRUE, sub |-> sub, roots |-> rts,
     topsel |-> FullSel,
     subsel |-> IF \E k \in DOMAIN rts : rts[k] = "\\sub" THEN FullSel
                ELSE [full |-> FALSE, members |-> {}]]

InitsHier ==
    { Hier(v[1], top, sub, v[2]) :
        v \in { <<CfgBuf, << "\\top", "\\sub" >> >>, <<CfgBuf, << "\\sub", "\\top" >> >>,
                <<CfgBuf, << "\\top" >> >>, <<CfgPad, << "\\sub", "\\top" >> >> },
        top \in { t \in ShapesTop : t.inst_a # NoBit \/ t.inst_c # NoBit },
        sub \in ShapesSub }

Inits ==
    { i \in InitsFlat \cup InitsInhibit \cup InitsBufr \cup InitsHier :
        /\ i.top.ff # NoBit => i.top.ff[2] < i.top.wa
        /\ i.sub.inh # "none" => i.roots = << "\\top", "\\sub" >>
        /\ (i.has_sub /\ i.top.inh # "none") =>
              (i.roots = << "\\sub", "\\top" >> /\ i.cfg = CfgBuf /\ i.top.a_in)
        /\ WellFormed(i) }

\* The values of the variables before execute() has set them.
Fresh ==
    /\ design0 = design
    /\ run = 1
    /\ autoidx = 0
    /\ sink_ports = {}
    /\ buf_ports = {}
    /\ inv_ports_out = EmptyFun
    /\ inv_ports_in = EmptyFun
    /\ buffer_inputs = TRUE
    /\ ridx = 1
    /\ modules_sorted = <<>>
    /\ modules_processed = {}
    /\ midx = 1
    /\ sigmap = EmptyFun
    /\ sink_wire_bits = {}
    /\ buf_wire_bits = {}
    /\ driven_wire_bits = {}
    /\ buffered_bits = EmptyFun
    /\ input_queue = <<>>
    /\ bufr_cells_map = EmptyFun
    /\ retry = FALSE

Init ==
    /\ \E i \in Inits :
          /\ design = DesignOf(i)
          /\ args = ArgsOf(i.cfg)
          /\ roots = i.roots
    /\ pc = "start"
    /\ Fresh

Next ==
    \/ StartError
    \/ Start
    \/ QueueRoot
    \/ ProcessBlackbox
    \/ Collect
    \/ Insert
    \/ Publish
    \/ Reconnect
    \/ Swap
    \/ Finish
    \/ Rerun

Spec == Init /\ [][Next]_vars

(***************************************************************************)
(* The module ordering on its own: instantiation graphs over NumMods user  *)
(* modules (a module instantiates modules of a higher index, which keeps   *)
(* the graph acyclic, and cells of a type that is no module), and every    *)
(* order of every non-empty set of selected modules.                       *)
(***************************************************************************)
ModNameTable == << "\\m1", "\\m2", "\\m3", "\\m4", "\\m5", "\\m6" >>

ModName(k) == ModNameTable[k]

QueueModule(types) ==
    MkModule(FALSE, FALSE, <<>>,
             [k \in DOMAIN types |-> MkCell(NEW_ID(k), types[k], <<>>)], <<>>, FullSel)

RECURSIVE DagFrom(_)
DagFrom(k) ==
    IF k > NumMods THEN { EmptyFun }
    ELSE { [n \in DOMAIN g \cup {ModName(k)} |->
                IF n = ModName(k) THEN QueueModule(types) ELSE g[n]] :
            g \in DagFrom(k + 1),
            types \in SeqsUpTo({ ModName(j) : j \in (k + 1)..NumMods } \cup {"$and"}, 2) }

InitQueue ==
    /\ design \in DagFrom(1)
    /\ roots \in Arrangements({ ModName(k) : k \in 1..NumMods }) \ { <<>> }
    /\ args = ArgsOf(CfgBuf)
    /\ pc = "queue"
    /\ Fresh

SpecQueue == InitQueue /\ [][QueueRoot]_vars

(***************************************************************************)
(* The inverter propagation on its own: a module of three one-bit wires,   *)
(* up to MaxInv inverters between them, a cell with sink ports on any of   *)
(* the bits and a cell with clkbuf_driver outputs on bits that no inverter *)
(* drives.  Each pass scans the cells, and the connections of each cell,   *)
(* in an order chosen freely.                                              *)
(***************************************************************************)
MaxInv == 2

PropBits == { BitA(0), BitB, BitC }

PropLibrary ==
    [n \in {"\\PLL", "\\INV"} |->
        CASE n = "\\PLL" ->
                LibCell(<< MkWire("\\CLKIN", Cardinality(PropBits), TRUE, FALSE, 1,
                                  Attr(TRUE, FALSE, "")),
                           MkWire("\\CLKOUT", Cardinality(PropBits), FALSE, TRUE, 2,
                                  Attr(FALSE, TRUE, "")) >>)
          [] n = "\\INV" ->
                LibCell(<< MkWire("\\I", 1, TRUE, FALSE, 1, NoAttrs),
                           MkWire("\\O", 1, FALSE, TRUE, 2, Attr(FALSE, FALSE, "I")) >>)]

RECURSIVE SetToSeq(_)
SetToSeq(S) ==
    IF S = {} THEN <<>>
    ELSE LET x == CHOOSE y \in S : TRUE IN <<x>> \o SetToSeq(S \ {x})

PropModule(invs, sinks, bufs) ==
    LET iv == SetToSeq(invs)
        wires == << MkWire("\\a", 1, FALSE, FALSE, 0, NoAttrs),
                    MkWire("\\b", 1, FALSE, FALSE, 0, NoAttrs),
                    MkWire("\\c", 1, FALSE, FALSE, 0, NoAttrs) >>
        cells == [k \in DOMAIN iv |->
                     MkCell(NEW_ID(k), "\\INV",
                            << MkConn("\\I", <<iv[k][1]>>), MkConn("\\O", <<iv[k][2]>>) >>)]
              \o Opt(sinks \cup bufs # {}, MkCell("pll", "\\PLL",
                        Opt(sinks # {}, MkConn("\\CLKIN", SetToSeq(sinks)))
                     \o Opt(bufs # {}, MkConn("\\CLKOUT", SetToSeq(bufs)))))
    IN  MkModule(FALSE, TRUE, wires, cells, <<>>, FullSel)

InvSets ==
    { s \in SUBSET (PropBits \X PropBits) :
        /\ Cardinality(s) <= MaxInv
        /\ \A p, q \in s : p[2] = q[2] => p = q }

PropTables ==
    LET t0 == [sink |-> {}, buf |-> {}, inv_out |-> EmptyFun, inv_in |-> EmptyFun]
        t1 == blackbox_ports("\\PLL", PropLibrary["\\PLL"], 1, t0)
    IN  blackbox_ports("\\INV", PropLibrary["\\INV"], 1, t1)

InitProp ==
    /\ \E invs \in InvSets, sinks \in SUBSET PropBits :
        \E bufs \in SUBSET PropBits :
            design = [n \in DOMAIN PropLibrary \cup {"\\top"} |->
                        IF n = "\\top" THEN PropModule(invs, sinks, bufs)
                        ELSE PropLibrary[n]]
    /\ design0 = design
    /\ args = ArgsOf(CfgBuf)
    /\ roots = << "\\top" >>
    /\ run = 1
    /\ autoidx = 0
    /\ sink_ports = PropTables.sink
    /\ buf_ports = PropTables.buf
    /\ inv_ports_out = PropTables.inv_out
    /\ inv_ports_in = PropTables.inv_in
    /\ buffer_inputs = TRUE
    /\ ridx = 2
    /\ modules_sorted = << "\\top" >>
    /\ modules_processed = { "\\top" }
    /\ midx = 1
    /\ sigmap = SigMap(design["\\top"])
    /\ sink_wire_bits = collect_tagged(design["\\top"], sigmap, sink_ports)
    /\ buf_wire_bits = collect_tagged(design["\\top"], sigmap, buf_ports)
    /\ driven_wire_bits = {}
    /\ buffered_bits = EmptyFun
    /\ input_queue = <<>>
    /\ bufr_cells_map = EmptyFun
    /\ retry = TRUE
    /\ pc = "prop"

\* Every scan order of the cells and of the connections of each cell.
ScanOrders(cells) ==
    { [k \in DOMAIN co |-> << co[k], po[co[k]] >>] :
        co \in { f \in [DOMAIN cells -> DOMAIN cells] :
                   \A x, y \in DOMAIN cells : f[x] = f[y] => x = y },
        po \in { g \in [DOMAIN cells -> UNION { Arrangements(DOMAIN cells[c].conn) :
                                                   c \in DOMAIN cells }] :
                   \A c \in DOMAIN cells :
                       /\ Len(g[c]) = Len(cells[c].conn)
                       /\ Range(g[c]) = DOMAIN cells[c].conn } }

\* Lines 183-210: one iteration of while (retry), in some scan order.
PropPass ==
    /\ pc = "prop"
    /\ retry
    /\ \E order \in ScanOrders(Cur.cells) :
          LET st == prop_pass(Cur.cells, order, 1, sigmap,
                        [sink |-> sink_wire_bits, buf |-> buf_wire_bits, retry |-> FALSE])
          IN  /\ sink_wire_bits' = st.sink
              /\ buf_wire_bits' = st.buf
              /\ retry' = st.retry
    /\ UNCHANGED <<design, pc, autoidx, buffer_inputs, ridx, modules_sorted,
                   modules_processed, midx, tables, sigmap, driven_wire_bits,
                   buffered_bits, input_queue, bufr_cells_map, inputs>>

\* The loop ends when a pass has left retry false.
PropExit ==
    /\ pc = "prop"
    /\ ~retry
    /\ pc' = "propdone"
    /\ UNCHANGED <<design, autoidx, buffer_inputs, ridx, modules_sorted,
                   modules_processed, midx, tables, locals, propvars, inputs>>

SpecProp == InitProp /\ [][PropPass \/ PropExit]_vars

\* The loop is sequential code: while a pass or the exit can be taken, one
\* of them is taken.
SpecPropFair == SpecProp /\ WF_vars(PropPass \/ PropExit)

(***************************************************************************)
(* Properties.                                                             *)
(***************************************************************************)
Pos(seq, x) == CHOOSE k \in DOMAIN seq : seq[k] = x

\* The modules of the design that the cells of module M instantiate.
Instantiates(d, M) == { d[M].cells[k].type : k \in DOMAIN d[M].cells } \cap DOMAIN d

RECURSIVE ReachableFrom(_, _)
ReachableFrom(d, S) ==
    LET more == S \cup UNION { Instantiates(d, M) : M \in S }
    IN  IF more = S THEN S ELSE ReachableFrom(d, more)

\* C1: once module_queue has been called for every selected module,
\* modules_sorted holds every module reachable from them exactly once, and
\* every module a module instantiates stands strictly before it.
C1_ModuleOrder ==
    (pc = "module" /\ ridx > Len(roots)) =>
        /\ \A i, j \in DOMAIN modules_sorted :
              modules_sorted[i] = modules_sorted[j] => i = j
        /\ Range(modules_sorted) = ReachableFrom(design, Range(roots))
        /\ \A M \in Range(modules_sorted) : \A T \in Instantiates(design, M) :
              /\ T \in Range(modules_sorted)
              /\ Pos(modules_sorted, T) < Pos(modules_sorted, M)

\* A module selected after one of its parents, in a graph of depth three.
C1_Witness ==
    /\ pc = "module"
    /\ ridx > Len(roots)
    /\ Len(modules_sorted) >= 3
    /\ \E M, T, U \in Range(roots) :
          /\ T \in Instantiates(design, M)
          /\ U \in Instantiates(design, T)
          /\ Pos(roots, M) < Pos(roots, U)
          /\ Pos(roots, U) < Pos(roots, T)

(***************************************************************************)
(* What a run did to the module processed last, read off the design before *)
(* (design0) and after (design) the run.                                   *)
(***************************************************************************)
LastName == modules_sorted[Len(modules_sorted)]

\* The run is over and the module processed last is a top module.
TopDone ==
    /\ pc = "done"
    /\ modules_sorted # <<>>
    /\ ~design[LastName].blackbox
    /\ design[LastName].top

NewCells(m0, m) == { m.cells[k] : k \in { x \in DOMAIN m.cells : ~HasCell(m0, m.cells[x].name) } }

NewWires(m0, m) ==
    { m.wires[k] : k \in { x \in DOMAIN m.wires :
                             \A y \in DOMAIN m0.wires : m0.wires[y].id # m.wires[x].id } }

\* The cells the run inserted on a bit: their first port is set to the bit.
InsertedOn(m0, m, bit) == { c \in NewCells(m0, m) : c.conn[1].sig = <<bit>> }

\* The bits of the processed wires of m0 that are input port bits (or, with
\* inputs false, any bits) whose net is a sink and is not buffered.
UnbufferedSinkBits(m0, inputs_only) ==
    UNION { { <<m0.wires[w], i>> :
                i \in { k \in WireBits(m0.wires[w]) :
                          /\ Find(sigmap, <<m0.wires[w].id, k>>) \in sink_wire_bits
                          /\ Find(sigmap, <<m0.wires[w].id, k>>) \notin buf_wire_bits } } :
            w \in { x \in DOMAIN m0.wires :
                      /\ inputs_only => m0.wires[x].port_input
                      /\ ~m0.wires[x].port_output
                      /\ process_wire(m0, m0.wires[x]) } }

\* The connections of the cells of m0 that are sink ports reading the bit.
SinkSlotsOn(m0, bit) ==
    { t \in PortSlots(m0) :
        SlotKey(m0, t) \in sink_ports /\ Find(sigmap, SlotBit(m0, t)) = Find(sigmap, bit) }

\* C2: in a top module, with only -buf given, a selected, non-inhibited
\* input port bit that is an unbuffered clock sink gets exactly one buffer
\* cell; the sinks that read the bit read the net of the buffer's output
\* port (the first port name of -buf), the original port wire ends as an
\* internal wire, and a port of the original name is connected to the
\* buffer's input port (the second port name).
C2_TopClockInput ==
    (TopDone /\ buf_celltype # "" /\ inpad_celltype = "") =>
        LET m0 == design0[LastName]
            m == design[LastName]
            fm == SigMap(m)
        IN  \A wb \in UnbufferedSinkBits(m0, TRUE) :
                LET w == wb[1]
                    bit == <<w.id, wb[2]>>
                    cells == InsertedOn(m0, m, Find(sigmap, bit))
                IN  /\ Cardinality(NewCells(m0, m)) >= 1
                    /\ Cardinality(cells) = 1
                    /\ \A c \in cells :
                          /\ c.type = escape_id(buf_celltype)
                          /\ \A t \in SinkSlotsOn(m0, bit) :
                                Find(fm, SlotBit(m, t))
                                    = Find(fm, getPort(c, escape_id(buf_portname))[1])
                          /\ \E p \in Range(m.wires) :
                                /\ p.name = w.name
                                /\ p.port_input
                                /\ p.id # w.id
                                /\ Find(fm, <<p.id, wb[2]>>)
                                     = Find(fm, getPort(c, escape_id(buf_portname2))[1])
                                /\ Find(fm, <<p.id, wb[2]>>)
                                     # Find(fm, getPort(c, escape_id(buf_portname))[1])
                    /\ ~WireById(m, w.id).port_input
                    /\ ~WireById(m, w.id).port_output
                    /\ WireById(m, w.id).name # w.name

\* A top-level clock input read by a sink was buffered.
C2_Witness ==
    /\ TopDone
    /\ run = 1
    /\ buf_celltype # ""
    /\ inpad_celltype = ""
    /\ \E wb \in UnbufferedSinkBits(design0[LastName], TRUE) :
          /\ SinkSlotsOn(design0[LastName], <<wb[1].id, wb[2]>>) # {}
          /\ wb[1].width > 1

\* The modules of the design the run processed (blackboxes only give tags).
Processed == { M \in Range(modules_sorted) : ~design0[M].blackbox }

IsPort(w) == w.port_input \/ w.port_output

\* C3: after the run every processed module has, for each port wire it had
\* before the run, a port wire of the same name, width and direction.
C3_PortIdentity ==
    pc = "done" =>
        \A M \in Processed :
            \A w \in { x \in Range(design0[M].wires) : IsPort(x) } :
                /\ \E p \in Range(design[M].wires) :
                      /\ p.name = w.name
                      /\ p.width = w.width
                      /\ p.port_input = w.port_input
                      /\ p.port_output = w.port_output
                /\ w.name \in Range(design[M].ports)

\* A run replaced the wire behind a port of width 2 by a new wire.
C3_Witness ==
    /\ pc = "done"
    /\ \E M \in Processed :
          \E w \in Range(design0[M].wires) :
              /\ IsPort(w)
              /\ w.width > 1
              /\ \E p \in NewWires(design0[M], design[M]) : p.name = w.name

\* The cell ports of module m on the net of a bit, as <<cell, port, index>>:
\* those that drive it (output ports) and those that read it.
PortsOnNet(d, m, bit, driving) ==
    LET sm == SigMap(m)
    IN  { << m.cells[t[1]].name, m.cells[t[1]].conn[t[2]].port, t[3] >> :
            t \in { x \in PortSlots(m) :
                      /\ Find(sm, SlotBit(m, x)) = Find(sm, bit)
                      /\ output(d, m.cells[x[1]], m.cells[x[1]].conn[x[2]].port) = driving } }

InhibitedWires(m0) == { w \in Range(m0.wires) : w.attributes.clkbuf_inhibit }

\* C4: without -select, after the run every bit of every wire that has the
\* clkbuf_inhibit attribute is driven by the same cell port and read by the
\* same cell ports as before the run.
C4_InhibitUnmodified ==
    (pc = "done" /\ ~select) =>
        \A M \in Processed :
            \A w \in InhibitedWires(design0[M]) :
                \A i \in WireBits(w) :
                    /\ PortsOnNet(design, design[M], <<w.id, i>>, TRUE)
                         = PortsOnNet(design0, design0[M], <<w.id, i>>, TRUE)
                    /\ PortsOnNet(design, design[M], <<w.id, i>>, FALSE)
                         = PortsOnNet(design0, design0[M], <<w.id, i>>, FALSE)

\* The same for the inhibited wires whose net holds no bit of a wire that
\* is not inhibited.
C4_InhibitUnmodifiedUnaliased ==
    (pc = "done" /\ ~select) =>
        \A M \in Processed :
            \A w \in InhibitedWires(design0[M]) :
                \A i \in WireBits(w) :
                    (\A v \in Range(design0[M].wires) : \A k \in WireBits(v) :
                        Find(SigMap(design0[M]), <<v.id, k>>)
                            = Find(SigMap(design0[M]), <<w.id, i>>)
                          => v.attributes.clkbuf_inhibit)
                    =>
                    /\ PortsOnNet(design, design[M], <<w.id, i>>, TRUE)
                         = PortsOnNet(design0, design0[M], <<w.id, i>>, TRUE)
                    /\ PortsOnNet(design, design[M], <<w.id, i>>, FALSE)
                         = PortsOnNet(design0, design0[M], <<w.id, i>>, FALSE)

\* An inhibited wire with a driver and a sink, after a run without -select
\* that inserted a cell into its module.
C4_Witness ==
    /\ pc = "done"
    /\ ~select
    /\ \E M \in Processed :
          /\ NewCells(design0[M], design[M]) # {}
          /\ \E w \in InhibitedWires(design0[M]) :
                /\ PortsOnNet(design0, design0[M], <<w.id, 0>>, TRUE) # {}
                /\ PortsOnNet(design0, design0[M], <<w.id, 0>>, FALSE) # {}

\* The buffer cell type is a blackbox and the first port of -buf is a
\* clkbuf_driver port of it.
BufferIsDriver ==
    buf_celltype # "" =>
        /\ escape_id(buf_celltype) \in DOMAIN design
        /\ design[escape_id(buf_celltype)].blackbox
        /\ HasWire(design[escape_id(buf_celltype)], escape_id(buf_portname))
        /\ WireOf(design[escape_id(buf_celltype)],
                  escape_id(buf_portname)).attributes.clkbuf_driver

\* The wires of the current module that the insertion loop processes.
ProcessedWires(m) ==
    { w \in Range(m.wires) : ~(w.port_input /\ w.port_output) /\ process_wire(m, w) }

\* C5 as stated: a second run with the same options changes nothing in the
\* design, and when the second run has collected the bits of a module, no
\* bit of a processed wire is a sink without being buffered.
C5_Idempotent ==
    /\ (pc = "done" /\ run > 1) => design = design0
    /\ (pc = "insert" /\ run > 1) =>
          \A w \in ProcessedWires(Cur) : \A i \in WireBits(w) :
              Find(sigmap, <<w.id, i>>) \in sink_wire_bits
                  => Find(sigmap, <<w.id, i>>) \in buf_wire_bits

\* C5: when the first port of -buf is a clkbuf_driver port, a second run with
\* the same options inserts no cell and no wire, rewrites no connection and
\* renames nothing: it leaves the design as the first run left it.
C5_IdempotentTagged ==
    (pc = "done" /\ run > 1 /\ BufferIsDriver) => design = design0

\* A second run has ended on a design into which the first run inserted a
\* buffer whose first port is a clkbuf_driver port.
C5_Witness ==
    /\ pc = "done"
    /\ run > 1
    /\ buf_celltype # ""
    /\ BufferIsDriver
    /\ \E M \in Processed :
          \E c \in Range(design0[M].cells) :
              c.type = escape_id(buf_celltype) /\ c.name \in Range(AutoIds)

\* The sets the propagation loop ends with when it scans the cells and
\* their connections in the order in which the module holds them.
NaturalResult ==
    propagate(Cur.cells, sigmap,
              [sink |-> collect_sink_bits(Cur, sigmap),
               buf |-> collect_buf_bits(Cur, sigmap),
               retry |-> TRUE])

\* C6 as stated: whatever the scan order of each pass, the loop ends with
\* the same sink set and the same buffered set.
C6_OrderIndependent ==
    pc = "propdone" =>
        /\ sink_wire_bits = NaturalResult.sink
        /\ buf_wire_bits = NaturalResult.buf

\* C6: whatever the scan order of each pass, the loop ends with the same
\* buffered set and the same set of sinks that are not buffered.
C6_OrderIndependentUnbuffered ==
    pc = "propdone" =>
        /\ buf_wire_bits = NaturalResult.buf
        /\ sink_wire_bits \ buf_wire_bits = NaturalResult.sink \ NaturalResult.buf

\* The loop has ended on a chain of two inverters where both rules fired:
\* a bit became a sink and a bit became buffered.
C6_Witness ==
    /\ pc = "propdone"
    /\ Cardinality({ c \in Range(Cur.cells) : c.type = "\\INV" }) = 2
    /\ sink_wire_bits # collect_sink_bits(Cur, sigmap)
    /\ \E c \in Range(Cur.cells) :
          /\ c.type = "\\INV"
          /\ getPort(c, "\\I")[1] \in collect_buf_bits(Cur, sigmap)
          /\ getPort(c, "\\O")[1] \in buf_wire_bits

\* The module being processed, between the collection of its bits and the end
\* of its processing.
InModule == midx <= Len(modules_sorted) /\ pc \in {"insert", "publish", "reconnect", "swap"}

\* The instances in the current module of modules processed before it.
Instances == { c \in Range(design0[CurName].cells) : c.type \in Processed }

\* The output port wires of the type of an instance that the instance connects.
OutputPorts(u) ==
    { w \in Range(design0[u.type].wires) :
        w.port_output /\ ~w.port_input /\ HasPort(u, w.name) }

\* The run inserted a cell in module M on the net of bit i of its wire P.
BufferedInside(M, P, i) ==
    InsertedOn(design0[M], design[M], Find(SigMap(design0[M]), <<P.id, i>>)) # {}

\* The cells inserted so far in the current module that have a port on the net.
InsertedOnNet(net) ==
    { c \in NewCells(design0[CurName], Cur) :
        \E j \in DOMAIN c.conn : \E k \in DOMAIN c.conn[j].sig :
            Find(sigmap, c.conn[j].sig[k]) = net }

\* C7: when the module being processed has an instance u of a module B in
\* which a buffer was inserted on the net of bit i of the output port P,
\* then <<B, P, i>> is in buf_ports, the net of the bit connected to P[i]
\* of u is in the buffered set, and no cell is inserted on that net.
C7_HierarchyMonotone ==
    InModule =>
        \A u \in Instances : \A P \in OutputPorts(u) : \A i \in WireBits(P) :
            BufferedInside(u.type, P, i) =>
                /\ << u.type, P.name, i >> \in buf_ports
                /\ Find(sigmap, getPort(u, P.name)[i + 1]) \in buf_wire_bits
                /\ InsertedOnNet(Find(sigmap, getPort(u, P.name)[i + 1])) = {}

\* The module has been processed up to the reconnection and a sink of it
\* reads the output of an instance inside which the output was buffered.
C7_Witness ==
    /\ InModule
    /\ pc = "swap"
    /\ \E u \in Instances : \E P \in OutputPorts(u) :
          /\ BufferedInside(u.type, P, 0)
          /\ SinkSlotsOn(design0[CurName], getPort(u, P.name)[1]) # {}

\* The input port bits <<w, i>> of the current module, as it was before the
\* run, that are sinks, are not buffered and share their net with no bit
\* that a cell of the module drives.
UndrivenSinkInputs ==
    UNION { { <<w, i>> :
                i \in { k \in WireBits(w) :
                          /\ Find(sigmap, <<w.id, k>>) \in sink_wire_bits
                          /\ Find(sigmap, <<w.id, k>>) \notin buf_wire_bits
                          /\ \A b \in driven_wire_bits :
                                Find(sigmap, b) # Find(sigmap, <<w.id, k>>) } } :
            w \in { x \in Range(design0[CurName].wires) :
                      x.port_input /\ ~x.port_output } }

\* The input port wires of the type of an instance that the instance connects.
InputPorts(u) ==
    { w \in Range(design0[u.type].wires) :
        w.port_input /\ ~w.port_output /\ HasPort(u, w.name) }

\* The bit is on the net of an input port bit of the current module; with
\* processed, of an input port wire that the insertion loop processes.
OnInputPort(bit, processed) ==
    \E w \in Range(design0[CurName].wires) : \E k \in WireBits(w) :
        /\ w.port_input
        /\ ~w.port_output
        /\ processed => process_wire(design0[CurName], w)
        /\ Find(sigmap, <<w.id, k>>) = Find(sigmap, bit)

\* Once the insertion loop has run over the current module.
Inserted == InModule /\ pc # "insert"

PadIsDriver ==
    /\ escape_id(inpad_celltype) \in DOMAIN design
    /\ \E w \in Range(design[escape_id(inpad_celltype)].wires) :
          w.port_output /\ w.attributes.clkbuf_driver

\* The cells of a type that the run inserted in the module processed last.
InsertedOfType(type) ==
    { c \in NewCells(design0[LastName], design[LastName]) : c.type = escape_id(type) }

\* C9: in a top module with a pad type configured, for every input port bit
\* of a processed wire that is an unbuffered sink: when the pad type declares a clkbuf_driver port, the
\* cell is a pad cell and no buffer cell is inserted; when it declares
\* none and a buffer type is configured too, a buffer cell is inserted on
\* the net of the sinks, a pad cell drives the input of the buffer, and
\* the port of the original name drives the input of the pad cell.
C9_PadPolicy ==
    (TopDone /\ inpad_celltype # "") =>
        LET m0 == design0[LastName]
            m == design[LastName]
            fm == SigMap(m)
        IN  \A wb \in UnbufferedSinkBits(m0, TRUE) :
                LET mapped == Find(sigmap, <<wb[1].id, wb[2]>>)
                    cells == InsertedOn(m0, m, mapped)
                IN  /\ PadIsDriver =>
                          /\ Cardinality(cells) = 1
                          /\ \A c \in cells : c.type = escape_id(inpad_celltype)
                          /\ buf_celltype # inpad_celltype => InsertedOfType(buf_celltype) = {}
                    /\ (~PadIsDriver /\ buf_celltype # "") =>
                          /\ Cardinality(cells) = 1
                          /\ \A c \in cells :
                                /\ c.type = escape_id(buf_celltype)
                                /\ \E pad \in InsertedOfType(inpad_celltype) :
                                      /\ getPort(pad, escape_id(inpad_portname))
                                           = getPort(c, escape_id(buf_portname2))
                                      /\ \E p \in Range(m.wires) :
                                            /\ p.name = wb[1].name
                                            /\ p.port_input
                                            /\ Find(fm, <<p.id, wb[2]>>)
                                                 = Find(fm, getPort(pad,
                                                       escape_id(inpad_portname2))[1])

\* C10: with neither -buf nor -inpad the run goes from its start to the fatal
\* error and stops there: no module is queued, the design is as it was (no
\* cell, wire or connection added or rewritten, no wire renamed), the tag
\* tables are empty and no identifier has been drawn.
C10_FatalConfig ==
    (buf_celltype = "" /\ inpad_celltype = "") =>
        /\ pc \in {"start", "error"}
        /\ design = design0
        /\ modules_sorted = <<>>
        /\ sink_ports = {}
        /\ buf_ports = {}
        /\ inv_ports_out = EmptyFun
        /\ inv_ports_in = EmptyFun
        /\ autoidx = 0
        /\ pc = "error" => ~ENABLED Next

\* The run has ended in the fatal error on a design with a sink on a
\* top-level input.
C10_Witness ==
    /\ pc = "error"
    /\ buf_celltype = ""
    /\ inpad_celltype = ""
    /\ \E w \in Range(design["\\top"].wires) :
          /\ w.port_input
          /\ \E c \in Range(design["\\top"].cells) :
                c.type = "\\FF" /\ getPort(c, "\\C") = << <<w.id, 0>> >>

\* <<output bit, input bit>>, under the signal map, of every port bit of a
\* cell of the current module that is a registered inverter output.
InverterBits ==
    { << Find(sigmap, SlotBit(design0[CurName], t)),
         Find(sigmap, getPort(design0[CurName].cells[t[1]],
                              inv_ports_out[SlotKey(design0[CurName], t)][1])
                          [inv_ports_out[SlotKey(design0[CurName], t)][2] + 1]) >> :
        t \in { x \in PortSlots(design0[CurName]) :
                  SlotKey(design0[CurName], x) \in DOMAIN inv_ports_out } }

\* The inverters, with input and output on two nets, whose output is a sink
\* and is not buffered before the propagation.
PushedInverters ==
    { p \in InverterBits :
        /\ p[1] # p[2]
        /\ p[1] \in collect_tagged(design0[CurName], sigmap, sink_ports)
        /\ p[1] \notin collect_tagged(design0[CurName], sigmap, buf_ports) }

\* A cell can be inserted on the net: a bit of a wire that the pass
\* processes lies on the net and is driven by a cell of the module or is an
\* input port bit of a top module, and a buffer type is configured, or a pad
\* type when the bit is a top-level input.
DrivenOrTopInput(net) ==
    \E w \in ProcessedWires(design0[CurName]) : \E k \in WireBits(w) :
        /\ Find(sigmap, << w.id, k >>) = net
        /\ \/ << w.id, k >> \in driven_wire_bits
           \/ w.port_input /\ design0[CurName].top
        /\ \/ buf_celltype # ""
           \/ inpad_celltype # "" /\ w.port_input /\ design0[CurName].top

\* C11 as stated: for an inverter whose output is a sink and not buffered
\* before the propagation, afterwards the output is buffered and the input
\* is a sink; a cell is inserted on the net of the input when that net is
\* driven or a top-level input, and none on the net of the output.
C11_InverterPush ==
    Inserted =>
        \A p \in PushedInverters :
            /\ p[1] \in buf_wire_bits
            /\ p[2] \in sink_wire_bits
            /\ InsertedOn(design0[CurName], Cur, p[1]) = {}
            /\ DrivenOrTopInput(p[2]) =>
                  InsertedOn(design0[CurName], Cur, p[2]) # {}

\* C11: afterwards the output is buffered and the input is a sink or is
\* buffered; no cell is inserted on the net of the output, and one is
\* inserted on the net of the input when that net is not buffered after the
\* propagation and is driven or a top-level input.
C11_InverterPushUnbuffered ==
    Inserted =>
        \A p \in PushedInverters :
            /\ p[1] \in buf_wire_bits
            /\ p[2] \in sink_wire_bits \cup buf_wire_bits
            /\ InsertedOn(design0[CurName], Cur, p[1]) = {}
            /\ (p[2] \notin buf_wire_bits /\ DrivenOrTopInput(p[2])) =>
                  /\ p[2] \in sink_wire_bits
                  /\ InsertedOn(design0[CurName], Cur, p[2]) # {}

\* A buffer was inserted ahead of an inverter whose output a sink reads.
C11_Witness ==
    /\ Inserted
    /\ \E p \in PushedInverters :
          /\ SinkSlotsOn(design0[CurName], p[1]) # {}
          /\ p[2] \notin buf_wire_bits
          /\ \E c \in InsertedOn(design0[CurName], Cur, p[2]) :
                c.type = escape_id(buf_celltype)

\* The cells of the buffer type that this pass created in the current module.
CreatedBuffers ==
    { c \in NewCells(design0[CurName], Cur) : c.type = escape_id(buf_celltype) }

\* The fresh wires of the pass: one bit wide, absent from the module before.
FreshWires == { w \in NewWires(design0[CurName], Cur) : w.width = 1 /\ ~IsPort(w) }

\* The ports of the cell that its type declares as outputs, and the others.
OutputsOf(c) == { k \in DOMAIN c.conn : output(design, c, c.conn[k].port) }

InputsOf(c) == DOMAIN c.conn \ OutputsOf(c)

\* C12 as stated: every created buffer has an input port on the canonical
\* bit of the buffered net and an output port on a fresh wire, and the
\* substitution table maps that bit to the cell and that wire.
C12_BufferWiring ==
    Inserted =>
        \A c \in CreatedBuffers :
            \E bit \in DOMAIN buffered_bits : \E w \in FreshWires :
                /\ Find(sigmap, bit) = bit
                /\ \E k \in InputsOf(c) : c.conn[k].sig = << bit >>
                /\ \E k \in OutputsOf(c) : c.conn[k].sig = << << w.id, 0 >> >>
                /\ buffered_bits[bit] = [cell |-> c.name, wire |-> w.id]

\* C12: every created buffer has its output port, the first port of -buf,
\* on the canonical bit of the buffered net and its input port, the second,
\* on a fresh wire; the substitution table maps the bit to the cell and to
\* that wire, or to the fresh wire on the input of the pad inserted with it.
C12_BufferWiringOutputOnNet ==
    Inserted =>
        \A c \in CreatedBuffers :
            \E bit \in DOMAIN buffered_bits : \E w \in FreshWires :
                /\ Find(sigmap, bit) = bit
                /\ Cardinality(DOMAIN c.conn) = 2
                /\ \E k \in OutputsOf(c) :
                      /\ c.conn[k].port = escape_id(buf_portname)
                      /\ c.conn[k].sig = << bit >>
                /\ \E k \in InputsOf(c) :
                      /\ c.conn[k].port = escape_id(buf_portname2)
                      /\ c.conn[k].sig = << << w.id, 0 >> >>
                /\ buffered_bits[bit].cell = c.name
                /\ \/ buffered_bits[bit].wire = w.id
                   \/ \E q \in NewCells(design0[CurName], Cur) : \E w2 \in FreshWires :
                         /\ q.type = escape_id(inpad_celltype)
                         /\ getPort(q, escape_id(inpad_portname)) = << << w.id, 0 >> >>
                         /\ getPort(q, escape_id(inpad_portname2)) = << << w2.id, 0 >> >>
                         /\ w2.id # w.id
                         /\ buffered_bits[bit].wire = w2.id

\* A buffer was created, alone on its bit, and the drivers were reconnected.
C12_Witness ==
    /\ pc = "swap"
    /\ \E c \in CreatedBuffers : \E bit \in DOMAIN buffered_bits :
          /\ getPort(c, escape_id(buf_portname)) = << bit >>
          /\ buffered_bits[bit] =
                [cell |-> c.name, wire |-> getPort(c, escape_id(buf_portname2))[1][1]]

\* The BUFR and BUFIO cells that the current module had before the pass.
SecondaryCells ==
    { c \in Range(design0[CurName].cells) : c.type \in {"\\BUFR", "\\BUFIO"} }

\* The drivers of the current module have been reconnected.
Reconnected == InModule /\ pc = "swap"

\* C13: after the reconnection every BUFR or BUFIO cell whose input bit is,
\* under the signal map, a bit of the substitution table reads the wire
\* recorded for that bit, whether the bit is driven by a cell or is a
\* top-level input, and every other BUFR or BUFIO cell keeps its input.
C13_SecondaryRealigned ==
    Reconnected =>
        \A c \in SecondaryCells :
            LET bit == Find(sigmap, getPort(c, "\\I")[1])
                now == getPort(CellOf(Cur, c.name), "\\I")
            IN  IF bit \in DOMAIN buffered_bits
                THEN now = << << buffered_bits[bit].wire, 0 >> >>
                ELSE now = getPort(c, "\\I")

\* A BUFR cell on a buffered bit that a cell drives was repointed.
C13_Witness ==
    /\ Reconnected
    /\ \E c \in SecondaryCells :
          LET bit == Find(sigmap, getPort(c, "\\I")[1])
          IN  /\ bit \in DOMAIN buffered_bits
              /\ \E b \in driven_wire_bits : Find(sigmap, b) = bit
              /\ getPort(CellOf(Cur, c.name), "\\I") = << << buffered_bits[bit].wire, 0 >> >>

\* The output port slots of the cells the module had before the pass that
\* were, under the signal map, on the bit.
DriversOf(bit) ==
    { t \in DriverSlots(design0, design0[CurName]) :
        Find(sigmap, SlotBit(design0[CurName], t)) = bit }

\* No wire that the module had before the pass has changed its name or its
\* port flags.
NoSwapYet ==
    \A w \in Range(design0[CurName].wires) : WireById(Cur, w.id) = w

\* C14: once the drivers are reconnected, for every bit of the substitution
\* table each output port bit of another cell that was on the bit is on the
\* recorded wire, the recorded cell's port is still on the bit, no port wire
\* has swapped names yet, and the signal map is the one of the module
\* before the pass.
C14_DriverReconnect ==
    /\ InModule => sigmap = SigMap(design0[CurName])
    /\ (InModule /\ pc \in {"publish", "reconnect"}) =>
          /\ NoSwapYet
          /\ \A t \in DriverSlots(design0, design0[CurName]) :
                SlotBit(Cur, t) = SlotBit(design0[CurName], t)
    /\ Reconnected =>
          /\ NoSwapYet
          /\ \A bit \in DOMAIN buffered_bits :
                /\ Find(sigmap, bit) = bit
                /\ HasCell(Cur, buffered_bits[bit].cell)
                /\ ~HasCell(design0[CurName], buffered_bits[bit].cell)
                /\ CellOf(Cur, buffered_bits[bit].cell).conn[1].sig = << bit >>
                /\ \A t \in DriversOf(bit) :
                      /\ Cur.cells[t[1]].name = design0[CurName].cells[t[1]].name
                      /\ SlotBit(Cur, t) = << buffered_bits[bit].wire, 0 >>

\* A cell drove a buffered bit and the drivers were reconnected.
C14_Witness ==
    /\ Reconnected
    /\ \E bit \in DOMAIN buffered_bits :
          /\ DriversOf(bit) # {}
          /\ output(design, CellOf(Cur, buffered_bits[bit].cell),
                    CellOf(Cur, buffered_bits[bit].cell).conn[1].port)

\* The inverter input slots of the current module as << input bit, output
\* bit >> under the signal map.
InverterInBits ==
    { << Find(sigmap, SlotBit(design0[CurName], t)),
         Find(sigmap, getPort(design0[CurName].cells[t[1]],
                              inv_ports_in[SlotKey(design0[CurName], t)][1])
                          [inv_ports_in[SlotKey(design0[CurName], t)][2] + 1]) >> :
        t \in { x \in PortSlots(design0[CurName]) :
                  SlotKey(design0[CurName], x) \in DOMAIN inv_ports_in } }

\* Rule 1 or rule 2 of the propagation could fire on the current sets.
RuleEnabled ==
    \/ \E p \in InverterBits : p[1] \in sink_wire_bits /\ p[1] \notin buf_wire_bits
    \/ \E q \in InverterInBits : q[1] \in buf_wire_bits /\ q[2] \notin buf_wire_bits

\* A step of the loop loses no element of the two sets, and a pass that
\* sets retry adds a bit to one of them.
PropStep ==
    /\ sink_wire_bits \subseteq sink_wire_bits'
    /\ buf_wire_bits \subseteq buf_wire_bits'
    /\ (pc' = "prop" /\ retry') =>
          \/ sink_wire_bits' # sink_wire_bits
          \/ buf_wire_bits' # buf_wire_bits

\* C15: the propagation loop ends; no step of it removes a bit from the sink
\* set or from the buffered set; a pass that sets retry adds a bit to one of
\* the two sets; until the exit a step that changes the state can be taken;
\* and at the exit neither rule can fire.
C15_PropagationEnds ==
    /\ [][PropStep]_vars
    /\ [](pc = "prop" => ENABLED <<PropPass \/ PropExit>>_vars)
    /\ [](pc = "propdone" => ~RuleEnabled)
    /\ <>(pc = "propdone")

\* The loop has ended after both rules fired: a bit became a sink through
\* rule 1 and a bit that is no inverter's input source became buffered.
C15_Witness ==
    /\ pc = "propdone"
    /\ ~retry
    /\ sink_wire_bits \ collect_sink_bits(Cur, sigmap) # {}
    /\ Cardinality(buf_wire_bits \ collect_buf_bits(Cur, sigmap)) >= 2

====
